---- MODULE Spec2Model ----
(***************************************************************************)
(* Session manager of beego (session/session.go): the provider registry,   *)
(* NewManager, the cookie-bound handlers SessionStart, SessionDestroy and  *)
(* SessionRegenerateId, and the GC timer chain.                            *)
(*                                                                         *)
(* Strings that pass through url.QueryEscape / url.QueryUnescape /         *)
(* hex.EncodeToString are sequences of byte values (48 is "0", 37 is "%"). *)
(* The storage provider is an interface: its implementations are not part  *)
(* of session.go, and it is modelled by its contract as a set of session   *)
(* ids that have a record.                                                 *)
(***************************************************************************)
EXTENDS Integers, Sequences, FiniteSets, TLC

\* ------------------------------------------------------------------ bounds
\* digests the hash can produce are the one-byte values 0..MaxSum
MaxSum == 1
\* handler calls made on one request
MaxCalls == 1

VARIABLES
    provides,   \* the registry: provider name -> provider
    manager,    \* the Manager NewManager returned (provider, config)
    sessions,   \* the provider's records: the session ids that have one
    r,          \* the request's cookies, in header order: [Name, Value]
    w,          \* the response's Set-Cookie headers, in order
    calls,      \* handler calls made on the current request
    issued,     \* every id sessionId has returned so far
    gc,         \* the GC chain: running SessionGC calls, pending timer
    last        \* what the last operation did (inputs, provider calls, result)

vars == <<provides, manager, sessions, r, w, calls, issued, gc, last>>

\* ------------------------------------------------------------- byte strings
EmptyString == <<>>

\* url.shouldEscape in encodeQueryComponent mode: unreserved bytes stay
shouldEscape(c) ==
    ~ \/ (c >= 48 /\ c <= 57)
      \/ (c >= 65 /\ c <= 90)
      \/ (c >= 97 /\ c <= 122)
      \/ c \in {45, 95, 46, 126}

upperhex(n) == IF n < 10 THEN 48 + n ELSE 55 + n

ishex(c) ==
    \/ (c >= 48 /\ c <= 57)
    \/ (c >= 97 /\ c <= 102)
    \/ (c >= 65 /\ c <= 70)

unhex(c) ==
    IF c >= 48 /\ c <= 57 THEN c - 48
    ELSE IF c >= 97 /\ c <= 102 THEN c - 97 + 10
    ELSE IF c >= 65 /\ c <= 70 THEN c - 65 + 10
    ELSE 0

RECURSIVE QueryEscape(_)
QueryEscape(s) ==
    IF s = <<>> THEN <<>>
    ELSE LET c == Head(s)
         IN  (IF c = 32 THEN <<43>>
              ELSE IF shouldEscape(c)
                   THEN <<37, upperhex(c \div 16), upperhex(c % 16)>>
                   ELSE <<c>>) \o QueryEscape(Tail(s))

\* first pass of url.unescape: every "%" is followed by two hex digits
RECURSIVE validEscapes(_)
validEscapes(s) ==
    IF s = <<>> THEN TRUE
    ELSE IF Head(s) = 37
         THEN /\ Len(s) >= 3
              /\ ishex(s[2])
              /\ ishex(s[3])
              /\ validEscapes(SubSeq(s, 4, Len(s)))
         ELSE validEscapes(Tail(s))

RECURSIVE unescape(_)
unescape(s) ==
    IF s = <<>> THEN <<>>
    ELSE IF Head(s) = 37
         THEN <<unhex(s[2]) * 16 + unhex(s[3])>> \o unescape(SubSeq(s, 4, Len(s)))
         ELSE IF Head(s) = 43
              THEN <<32>> \o unescape(Tail(s))
              ELSE <<Head(s)>> \o unescape(Tail(s))

\* sid, _ := url.QueryUnescape(v): the error is dropped and sid is then ""
QueryUnescape(s) == IF validEscapes(s) THEN unescape(s) ELSE EmptyString

hexdigit(n) == IF n < 10 THEN 48 + n ELSE 87 + n

RECURSIVE EncodeToString(_)
EncodeToString(bs) ==
    IF bs = <<>> THEN <<>>
    ELSE <<hexdigit(Head(bs) \div 16), hexdigit(Head(bs) % 16)>>
         \o EncodeToString(Tail(bs))

\* every byte written as %XX: a cookie value a client may send for an id
RECURSIVE PercentEncoded(_)
PercentEncoded(s) ==
    IF s = <<>> THEN <<>>
    ELSE <<37, upperhex(Head(s) \div 16), upperhex(Head(s) % 16)>>
         \o PercentEncoded(Tail(s))

\* ------------------------------------------------------------------ registry
Providers == {"memProvider", "fileProvider"}
NilProvider == "nil"
RegisterNames == {"memory"}
ManagerNames == {"memory", "redis"}

\* --------------------------------------------------------------------- config
ConfigFields == {"cookieName", "enableSetCookie", "gclifetime", "maxLifetime",
                 "secure", "sessionIDHashFunc", "sessionIDHashKey",
                 "cookieLifeTime", "providerConfig"}

\* cf := new(managerConfig); cf.EnableSetCookie = true
NewConfig ==
    [cookieName |-> "", enableSetCookie |-> TRUE, gclifetime |-> 0,
     maxLifetime |-> 0, secure |-> FALSE, sessionIDHashFunc |-> "",
     sessionIDHashKey |-> "", cookieLifeTime |-> 0, providerConfig |-> ""]

\* the JSON documents NewManager is given: malformed, or an object with the
\* fields in "set" bound to the values in "val"
BadJSON == [valid |-> FALSE, set |-> {}, val |-> NewConfig]

PlainDoc ==
    [valid |-> TRUE,
     set |-> {"cookieName"},
     val |-> [NewConfig EXCEPT !.cookieName = "sid"]]

FullDoc ==
    [valid |-> TRUE,
     set |-> ConfigFields,
     val |-> [cookieName |-> "sid", enableSetCookie |-> FALSE, gclifetime |-> 1,
              maxLifetime |-> 2, secure |-> TRUE, sessionIDHashFunc |-> "md5",
              sessionIDHashKey |-> "userkey", cookieLifeTime |-> 60,
              providerConfig |-> "./tmp"]]

ConfigDocs == {BadJSON, PlainDoc, FullDoc}

\* json.Unmarshal into cf: a field of the document overwrites, others stay
Unmarshal(doc, cf) ==
    [f \in ConfigFields |-> IF f \in doc.set THEN doc.val[f] ELSE cf[f]]

\* generateRandomKey(16): 16 random bytes
RandomKeys == {"k7Qm2xT9bLw4Zs0e", "Jd83hAf0PqLx51Vn"}
generateRandomKey == RandomKeys

NoManager == [provider |-> NilProvider, config |-> NewConfig]

\* the timer chain of GC: the calls of provider.SessionGC in progress, the
\* seconds left on the pending time.AfterFunc timer (-1: no timer), and the
\* seconds passed since the last SessionGC returned, and whether a timer
\* has started a call yet
NoGC == [started |-> FALSE, running |-> 0, timer |-> -1, since |-> 0,
         fired |-> FALSE]

Init ==
    /\ provides = [n \in {} |-> NilProvider]
    /\ manager = NoManager
    /\ sessions = {}
    /\ r = <<>>
    /\ w = <<>>
    /\ calls = 0
    /\ issued = {}
    /\ gc = NoGC
    /\ last = [op |-> "init"]

\* ------------------------------------------------------------------- Register
\* Register without the check for a name registered before
RegisterPanicsNoDup(name, provide) == provide = NilProvider

RegisterPanics(name, provide) ==
    \/ provide = NilProvider
    \/ name \in DOMAIN provides

Registered(name, provide) ==
    [n \in DOMAIN provides \cup {name} |->
        IF n = name THEN provide ELSE provides[n]]

Register ==
    \E name \in RegisterNames, provide \in Providers \cup {NilProvider} :
        /\ provides' = IF RegisterPanics(name, provide)
                       THEN provides
                       ELSE Registered(name, provide)
        /\ last' = [op |-> "Register", name |-> name, provide |-> provide,
                    panic |-> RegisterPanics(name, provide),
                    before |-> provides]
        /\ UNCHANGED <<manager, sessions, r, w, calls, issued, gc>>

\* ----------------------------------------------------------------- NewManager
\* the steps of NewManager up to the call of provider.SessionInit
Parsed(doc) ==
    LET cf == Unmarshal(doc, NewConfig)
    IN  IF cf.maxLifetime = 0 THEN [cf EXCEPT !.maxLifetime = cf.gclifetime]
        ELSE cf

\* NewManager calling SessionInit before it looks at Unmarshal's error
CallsSessionInitUnparsed(provideName, doc) == provideName \in DOMAIN provides

\* whether NewManager reaches provider.SessionInit
CallsSessionInit(provideName, doc) ==
    /\ provideName \in DOMAIN provides
    /\ doc.valid

\* the defaults set after SessionInit succeeded
Defaulted(cf, key) ==
    LET c1 == IF cf.sessionIDHashFunc = ""
              THEN [cf EXCEPT !.sessionIDHashFunc = "sha1"]
              ELSE cf
    IN  IF c1.sessionIDHashKey = ""
        THEN [c1 EXCEPT !.sessionIDHashKey = key]
        ELSE c1

\* one Manager is followed: NewManager is called until it has returned one
NewManager ==
    /\ manager = NoManager
    /\ \E provideName \in ManagerNames, doc \in ConfigDocs,
          initErr \in BOOLEAN, key \in generateRandomKey :
        LET init == CallsSessionInit(provideName, doc)
            ok   == init /\ ~initErr
        IN  /\ manager' = IF ok
                          THEN [provider |-> provides[provideName],
                                config |-> Defaulted(Parsed(doc), key)]
                          ELSE NoManager
            /\ last' = [op |-> "NewManager", name |-> provideName, doc |-> doc,
                        known |-> provideName \in DOMAIN provides,
                        initCalled |-> init,
                        initErr |-> init /\ initErr,
                        err |-> ~ok,
                        ret |-> IF ok THEN "manager" ELSE "nil"]
            /\ UNCHANGED <<provides, sessions, r, w, calls, issued, gc>>

\* ------------------------------------------------------------------ sessionId
\* the digests h.Sum(nil) can yield for the signature built from RemoteAddr,
\* UnixNano and 24 random bytes: any value of the digest space
Sums == 0 .. MaxSum

\* the results sessionId can return: "" when reading rand.Reader fails, else
\* the hex encoding of the digest (md5, or hmac-sha1 under SessionIDHashKey)
sessionId(cfg) ==
    {EmptyString} \cup
    (IF cfg.sessionIDHashFunc = "md5"
     THEN {EncodeToString(<<d>>) : d \in Sums}
     ELSE IF cfg.sessionIDHashFunc = "sha1"
          THEN {EncodeToString(<<d>>) : d \in Sums}
          ELSE {EncodeToString(<<d>>) : d \in Sums})

\* ---------------------------------------------------------- provider contract
SessionExist(store, sid) == sid \in store
SessionRead(store, sid) == store \cup {sid}
SessionRegenerate(store, oldsid, sid) == (store \ {oldsid}) \cup {sid}
ProviderDestroy(store, sid) == store \ {sid}
\* SessionGC drops the records that have expired: some of them
SessionGC(store) == SUBSET store

\* -------------------------------------------------------------------- cookies
\* r.Cookie(name): the first cookie of that name; 0 stands for ErrNoCookie
RECURSIVE FirstNamed(_, _, _)
FirstNamed(req, name, i) ==
    IF i > Len(req) THEN 0
    ELSE IF req[i].Name = name THEN i
    ELSE FirstNamed(req, name, i + 1)

Cookie(req, name) == FirstNamed(req, name, 1)

\* a handler that leaves r.AddCookie out
AddCookieDropped(req, c) == req

\* r.AddCookie(c): name=value is appended to the Cookie header
AddCookie(req, c) == Append(req, [Name |-> c.Name, Value |-> c.Value])

\* http.SetCookie(w, c): a Set-Cookie header is added
SetCookie(resp, c) == Append(resp, c)

\* the cookie SessionStart builds for a generated id
StartCookie(cfg, sid) ==
    [Name |-> cfg.cookieName, Value |-> QueryEscape(sid), Path |-> "/",
     HttpOnly |-> TRUE, Secure |-> cfg.secure,
     MaxAge |-> IF cfg.cookieLifeTime >= 0 THEN cfg.cookieLifeTime ELSE 0,
     Expires |-> "unset"]

\* the cookie SessionDestroy writes
ExpiredCookie(cfg) ==
    [Name |-> cfg.cookieName, Value |-> EmptyString, Path |-> "/",
     HttpOnly |-> TRUE, Secure |-> FALSE, MaxAge |-> -1, Expires |-> "now"]

\* the cookie SessionRegenerateId sends back: the one r.Cookie parsed from
\* the request (Name and Value only), with Value, HttpOnly and Path assigned
RegeneratedCookie(cfg, parsed, sid) ==
    [Name |-> parsed.Name, Value |-> QueryEscape(sid), Path |-> "/",
     HttpOnly |-> TRUE, Secure |-> FALSE,
     MaxAge |-> IF cfg.cookieLifeTime >= 0 THEN cfg.cookieLifeTime ELSE 0,
     Expires |-> "unset"]

\* the cookie values a client sends: none, a bare id, an id written with
\* percent escapes, a value with a malformed escape
Ids == {EncodeToString(<<d>>) : d \in Sums}
ClientValues ==
    {EmptyString, <<37, 122, 122>>}
        \cup Ids \cup {PercentEncoded(EncodeToString(<<0>>))}
ClientCookies ==
    {<<>>, <<[Name |-> "lang", Value |-> <<101, 110>>]>>}
        \cup {<<[Name |-> "sid", Value |-> v]>> : v \in ClientValues}

NewRequest ==
    /\ \E cs \in ClientCookies : r' = cs
    /\ w' = <<>>
    /\ calls' = 0
    /\ last' = [op |-> "NewRequest"]
    /\ UNCHANGED <<provides, manager, sessions, issued, gc>>

\* --------------------------------------------------------------- SessionStart
\* line 125 negated: the request's cookie is used
HasSessionCookie(req, name) ==
    /\ Cookie(req, name) # 0
    /\ req[Cookie(req, name)].Value # EmptyString

\* SessionStart looking the cookie's value up as it stands, not unescaped
KeptSidRaw(req, name) == req[Cookie(req, name)].Value

\* the id SessionStart keeps, when it keeps one
KeptSid(req, name) == QueryUnescape(req[Cookie(req, name)].Value)

\* whether SessionStart returns the session of the request's cookie
KeepsSession(store, req, name) ==
    /\ HasSessionCookie(req, name)
    /\ SessionExist(store, KeptSid(req, name))

SessionStart ==
    /\ manager # NoManager
    /\ calls < MaxCalls
    /\ \E fresh \in sessionId(manager.config) :
        LET cfg    == manager.config
            keep   == KeepsSession(sessions, r, cfg.cookieName)
            sid    == IF keep THEN KeptSid(r, cfg.cookieName) ELSE fresh
            cookie == StartCookie(cfg, sid)
        IN  /\ sessions' = SessionRead(sessions, sid)
            /\ r' = IF keep THEN r ELSE AddCookie(r, cookie)
            /\ w' = IF keep \/ ~cfg.enableSetCookie THEN w
                    ELSE SetCookie(w, cookie)
            /\ issued' = IF keep THEN issued ELSE issued \cup {fresh}
            /\ last' = [op |-> "SessionStart",
                        found |-> Cookie(r, cfg.cookieName) # 0,
                        value |-> IF Cookie(r, cfg.cookieName) # 0
                                  THEN r[Cookie(r, cfg.cookieName)].Value
                                  ELSE EmptyString,
                        before |-> sessions,
                        after |-> SessionRead(sessions, sid),
                        issued0 |-> issued,
                        gen |-> IF keep THEN <<>> ELSE <<fresh>>,
                        pcalls |-> IF keep
                                   THEN <<<<"SessionExist", sid>>,
                                          <<"SessionRead", sid>>>>
                                   ELSE IF HasSessionCookie(r, cfg.cookieName)
                                        THEN <<<<"SessionExist",
                                                 KeptSid(r, cfg.cookieName)>>,
                                               <<"SessionRead", sid>>>>
                                        ELSE <<<<"SessionRead", sid>>>>,
                        ret |-> sid, panic |-> FALSE, r0 |-> r, w0 |-> w]
    /\ calls' = calls + 1
    /\ UNCHANGED <<provides, manager, gc>>

\* ------------------------------------------------------------- SessionDestroy
\* the id SessionDestroy hands to provider.SessionDestroy
DestroyedSid(value) == value

SessionDestroy ==
    /\ manager # NoManager
    /\ calls < MaxCalls
    /\ LET cfg == manager.config
           has == HasSessionCookie(r, cfg.cookieName)
           val == IF Cookie(r, cfg.cookieName) # 0
                  THEN r[Cookie(r, cfg.cookieName)].Value
                  ELSE EmptyString
       IN  /\ sessions' = IF has THEN ProviderDestroy(sessions, DestroyedSid(val))
                          ELSE sessions
           /\ w' = IF has THEN SetCookie(w, ExpiredCookie(cfg)) ELSE w
           /\ last' = [op |-> "SessionDestroy",
                       found |-> Cookie(r, cfg.cookieName) # 0,
                       value |-> val,
                       before |-> sessions,
                       after |-> IF has
                                 THEN ProviderDestroy(sessions, DestroyedSid(val))
                                 ELSE sessions,
                       issued0 |-> issued,
                       gen |-> <<>>,
                       pcalls |-> IF has
                                  THEN <<<<"SessionDestroy", DestroyedSid(val)>>>>
                                  ELSE <<>>,
                       ret |-> EmptyString, panic |-> FALSE, r0 |-> r, w0 |-> w]
    /\ calls' = calls + 1
    /\ UNCHANGED <<provides, manager, r, issued, gc>>

\* -------------------------------------------------------- SessionRegenerateId
\* line 198: err != nil && cookie.Value == "". With err != nil the cookie is
\* nil and reading cookie.Value is a nil dereference: the handler panics
RegeneratePanics(req, name) == Cookie(req, name) = 0

SessionRegenerateId ==
    /\ manager # NoManager
    /\ calls < MaxCalls
    /\ \E sid \in sessionId(manager.config) :
        LET cfg    == manager.config
            idx    == Cookie(r, cfg.cookieName)
            panics == RegeneratePanics(r, cfg.cookieName)
            oldsid == IF idx # 0 THEN QueryUnescape(r[idx].Value) ELSE EmptyString
            cookie == IF idx # 0 THEN RegeneratedCookie(cfg, r[idx], sid)
                      ELSE StartCookie(cfg, sid)
        IN  /\ issued' = issued \cup {sid}
            /\ sessions' = IF panics THEN sessions
                           ELSE SessionRegenerate(sessions, oldsid, sid)
            /\ w' = IF panics THEN w ELSE SetCookie(w, cookie)
            /\ r' = IF panics THEN r ELSE AddCookie(r, cookie)
            /\ last' = [op |-> "SessionRegenerateId",
                        found |-> idx # 0,
                        value |-> IF idx # 0 THEN r[idx].Value ELSE EmptyString,
                        before |-> sessions,
                        after |-> IF panics THEN sessions
                                  ELSE SessionRegenerate(sessions, oldsid, sid),
                        issued0 |-> issued,
                        gen |-> <<sid>>,
                        pcalls |-> IF panics THEN <<>>
                                   ELSE <<<<"SessionRegenerate", oldsid, sid>>>>,
                        ret |-> IF panics THEN EmptyString ELSE sid,
                        panic |-> panics, r0 |-> r, w0 |-> w]
    /\ calls' = calls + 1
    /\ UNCHANGED <<provides, manager, gc>>

\* ------------------------------------------------------------------ SetSecure
SetSecure ==
    /\ manager # NoManager
    /\ \E secure \in BOOLEAN :
        manager' = [manager EXCEPT !.config.secure = secure]
    /\ UNCHANGED <<provides, sessions, r, w, calls, issued, gc, last>>

\* ------------------------------------------------------------------------- GC
\* the timer armed with the sessions' lifetime instead of the GC period
AfterFuncDelayMaxlifetime(cfg) == cfg.maxLifetime

\* the duration handed to time.AfterFunc, in seconds
AfterFuncDelay(cfg) == cfg.gclifetime

\* GC's body up to the call of provider.SessionGC
GCEnter(g, cfg) ==
    [g EXCEPT !.started = TRUE, !.running = @ + 1, !.timer = -1, !.since = 0]

\* provider.SessionGC has returned and time.AfterFunc arms the timer
GCLeave(g, cfg) ==
    [g EXCEPT !.running = @ - 1,
              !.timer = IF AfterFuncDelay(cfg) > 0 THEN AfterFuncDelay(cfg) ELSE 0,
              !.since = 0]

\* the application starts the chain; one chain is followed
GC ==
    /\ manager # NoManager
    /\ ~gc.started
    /\ gc' = GCEnter(gc, manager.config)
    /\ UNCHANGED <<provides, manager, sessions, r, w, calls, issued, last>>

SessionGCReturn ==
    /\ gc.running > 0
    /\ sessions' \in SessionGC(sessions)
    /\ gc' = GCLeave(gc, manager.config)
    /\ UNCHANGED <<provides, manager, r, w, calls, issued, last>>

\* a second passes
Tick ==
    /\ gc.timer > 0
    /\ gc' = [gc EXCEPT !.timer = @ - 1, !.since = @ + 1]
    /\ UNCHANGED <<provides, manager, sessions, r, w, calls, issued, last>>

\* the timer fires and its func calls manager.GC()
AfterFuncFire ==
    /\ gc.timer = 0
    /\ gc' = GCEnter([gc EXCEPT !.fired = TRUE], manager.config)
    /\ UNCHANGED <<provides, manager, sessions, r, w, calls, issued, last>>

\* ------------------------------------------------------------ specifications
\* the program: registry, manager, request handlers and the GC chain
Next ==
    \/ Register
    \/ NewManager
    \/ NewRequest
    \/ SessionStart
    \/ SessionDestroy
    \/ SessionRegenerateId
    \/ SetSecure
    \/ GC
    \/ SessionGCReturn
    \/ Tick
    \/ AfterFuncFire

Spec == Init /\ [][Next]_vars

\* the request handlers without the GC chain. The handlers neither read nor
\* write gc, and every record SessionGC can drop a handler can drop as well
NextServe ==
    \/ Register
    \/ NewManager
    \/ NewRequest
    \/ SessionStart
    \/ SessionDestroy
    \/ SessionRegenerateId
    \/ SetSecure

ServeSpec == Init /\ [][NextServe]_vars

\* the GC chain beside the creation of sessions on one request. The Go
\* runtime lets time pass and fires an expired timer; provider.SessionGC is
\* taken to return
NextGC ==
    \/ Register
    \/ NewManager
    \/ SessionStart
    \/ GC
    \/ SessionGCReturn
    \/ Tick
    \/ AfterFuncFire

GCSpec ==
    /\ Init
    /\ [][NextGC]_vars
    /\ WF_vars(SessionGCReturn)
    /\ WF_vars(Tick)
    /\ WF_vars(AfterFuncFire)
\* ------------------------------------------------------------------- claims
Handlers == {"SessionStart", "SessionDestroy", "SessionRegenerateId"}

\* the last cookie of a request and the last Set-Cookie of a response
LastOf(seq) == seq[Len(seq)]

\* C1: SessionStart on a request whose session cookie is non-empty and whose
\* URL-unescaped value is the id of a record of the provider returns the
\* store of exactly that id (provider.SessionRead of it, which keeps the
\* record), generates no id, writes no Set-Cookie and adds no cookie to the
\* request.
C1_StartKeepsSession ==
    (/\ last.op = "SessionStart"
     /\ last.found
     /\ last.value # EmptyString
     /\ QueryUnescape(last.value) \in last.before)
    => /\ last.ret = QueryUnescape(last.value)
       /\ last.gen = <<>>
       /\ last.issued0 = issued
       /\ LastOf(last.pcalls) = <<"SessionRead", QueryUnescape(last.value)>>
       /\ last.ret \in last.after
       /\ w = last.w0
       /\ r = last.r0

\* C1 happens: a cookie written with percent escapes names an existing record
C1_Witness ==
    /\ last.op = "SessionStart"
    /\ last.found
    /\ last.value # QueryUnescape(last.value)
    /\ QueryUnescape(last.value) # EmptyString
    /\ QueryUnescape(last.value) \in last.before
    /\ last.ret = QueryUnescape(last.value)

\* C2: SessionStart on a request with no session cookie, with an empty cookie
\* value, or with a cookie whose unescaped id has no record generates one id
\* with sessionId, reads the store under that id (provider.SessionRead) and
\* returns it, adds a cookie named CookieName whose value unescapes to the id
\* to the request, and writes the same cookie to the response exactly when
\* EnableSetCookie is true.
C2_StartIssuesId ==
    (/\ last.op = "SessionStart"
     /\ \/ ~last.found
        \/ last.value = EmptyString
        \/ QueryUnescape(last.value) \notin last.before)
    => /\ Len(last.gen) = 1
       /\ LastOf(last.pcalls) = <<"SessionRead", last.gen[1]>>
       /\ \A i \in 1 .. Len(last.pcalls) - 1 : last.pcalls[i][1] # "SessionRead"
       /\ last.ret = last.gen[1]
       /\ last.gen[1] \in last.after
       /\ Len(r) = Len(last.r0) + 1
       /\ SubSeq(r, 1, Len(last.r0)) = last.r0
       /\ LastOf(r).Name = manager.config.cookieName
       /\ LastOf(r).Value = QueryEscape(last.gen[1])
       /\ QueryUnescape(LastOf(r).Value) = last.gen[1]
       /\ IF manager.config.enableSetCookie
          THEN /\ Len(w) = Len(last.w0) + 1
               /\ SubSeq(w, 1, Len(last.w0)) = last.w0
               /\ LastOf(w).Name = manager.config.cookieName
               /\ QueryUnescape(LastOf(w).Value) = last.gen[1]
          ELSE w = last.w0

\* C2 happens: a cookie for an id without a record is answered with another id
C2_Witness ==
    /\ last.op = "SessionStart"
    /\ last.found
    /\ last.value # EmptyString
    /\ QueryUnescape(last.value) \notin last.before
    /\ Len(last.gen) = 1
    /\ last.gen[1] # EmptyString
    /\ last.gen[1] # QueryUnescape(last.value)
    /\ LastOf(r).Value = last.gen[1]

\* C3: every id sessionId returns to SessionStart or SessionRegenerateId
\* differs from every id it returned before.
C3_UniqueIds ==
    (last.op \in Handlers /\ last.gen # <<>>)
    => last.gen[1] \notin last.issued0

\* C4: SessionRegenerateId on a request carrying a session cookie with old id
\* O generates an id N, calls provider.SessionRegenerate(O, N) exactly once
\* and returns its store, writes the cookie with N to the response and adds
\* it to the request, and afterwards the record is under N and not under O.
C4_RegenerateMoves ==
    (/\ last.op = "SessionRegenerateId"
     /\ last.found
     /\ last.value # EmptyString)
    => /\ ~last.panic
       /\ Len(last.gen) = 1
       /\ last.pcalls =
            <<<<"SessionRegenerate", QueryUnescape(last.value), last.gen[1]>>>>
       /\ last.ret = last.gen[1]
       /\ w = Append(last.w0, LastOf(w))
       /\ QueryUnescape(LastOf(w).Value) = last.gen[1]
       /\ r = Append(last.r0, LastOf(r))
       /\ QueryUnescape(LastOf(r).Value) = last.gen[1]
       /\ last.gen[1] \in last.after
       /\ QueryUnescape(last.value) \notin last.after

\* C5: SessionRegenerateId on a request without a session cookie does not
\* fail: it reads the store under the generated id (provider.SessionRead),
\* returns it, and sets the cookie of that id on the response and the request.
C5_RegenerateWithoutCookie ==
    (last.op = "SessionRegenerateId" /\ ~last.found)
    => /\ ~last.panic
       /\ last.pcalls = <<<<"SessionRead", last.gen[1]>>>>
       /\ last.ret = last.gen[1]
       /\ w = Append(last.w0, LastOf(w))
       /\ QueryUnescape(LastOf(w).Value) = last.gen[1]
       /\ r = Append(last.r0, LastOf(r))
       /\ QueryUnescape(LastOf(r).Value) = last.gen[1]

\* C6: SessionDestroy with a non-empty session cookie calls
\* provider.SessionDestroy for the id of that cookie, the id SessionStart
\* reads from it, so that the id has no record afterwards and a later
\* SessionStart with the old cookie gets a new id, and writes an expiring
\* cookie (MaxAge -1, Expires now) of the same name; with no cookie or an
\* empty value it calls nothing and writes nothing.
C6_DestroyById ==
    (last.op = "SessionDestroy")
    => IF last.found /\ last.value # EmptyString
       THEN /\ last.pcalls = <<<<"SessionDestroy", QueryUnescape(last.value)>>>>
            /\ QueryUnescape(last.value) \notin last.after
            /\ w = Append(last.w0, LastOf(w))
            /\ LastOf(w).Name = manager.config.cookieName
            /\ LastOf(w).MaxAge = -1
            /\ LastOf(w).Expires = "now"
       ELSE /\ last.pcalls = <<>>
            /\ last.after = last.before
            /\ w = last.w0

\* C7: one call of GC calls provider.SessionGC at once; when a call has
\* returned a timer of Gclifetime seconds is armed, and when it expires,
\* Gclifetime seconds after the return, SessionGC is called again: the calls
\* of the chain never overlap and there is always a next one.
C7_GCChain ==
    /\ [](gc.running <= 1)
    /\ [](gc.started => \/ gc.running = 1 /\ gc.timer = -1
                        \/ gc.running = 0 /\ gc.timer >= 0)
    /\ [](gc.timer >= 0 => gc.timer + gc.since = manager.config.gclifetime)
    /\ ((gc.started /\ gc.running = 0) ~> (gc.running = 1))
    /\ ((gc.running = 1) ~> (gc.running = 0 /\ gc.timer >= 0))

\* C7 happens: a timer armed with a Gclifetime of one second has expired and
\* started the next call of SessionGC
C7_Witness ==
    /\ gc.fired
    /\ gc.running = 1
    /\ manager.config.gclifetime = 1

\* C8: Register binds the provider to the name, and panics when the provider
\* is nil or the name is bound already; a Register that panics leaves the
\* registry as it was, and no Register changes the binding of a bound name.
C8_RegisterOnce ==
    (last.op = "Register")
    => /\ last.panic <=> \/ last.provide = NilProvider
                          \/ last.name \in DOMAIN last.before
       /\ last.panic => provides = last.before
       /\ ~last.panic => /\ last.name \in DOMAIN provides
                         /\ provides[last.name] = last.provide
       /\ \A n \in DOMAIN last.before :
            n \in DOMAIN provides /\ provides[n] = last.before[n]

\* C8 happens: a provider is registered under a name that is bound
C8_Witness ==
    /\ last.op = "Register"
    /\ last.provide # NilProvider
    /\ last.name \in DOMAIN last.before
    /\ provides[last.name] # last.provide
    /\ last.panic

\* C9: NewManager returns no Manager and an error when the provider name is
\* not registered, when the config does not parse, or when
\* provider.SessionInit fails; in the first two cases SessionInit is not
\* called.
C9_NewManagerErrors ==
    (last.op = "NewManager")
    => /\ (~last.known \/ ~last.doc.valid \/ last.initErr)
            => (last.ret = "nil" /\ last.err /\ manager = NoManager)
       /\ (~last.known \/ ~last.doc.valid) => ~last.initCalled
       /\ last.initErr => last.initCalled

\* C9 happens: the name is registered, the config parses, SessionInit fails
C9_Witness ==
    /\ last.op = "NewManager"
    /\ last.known
    /\ last.doc.valid
    /\ last.initErr
    /\ last.ret = "nil"

\* C10: a Manager NewManager makes from a config that does not set
\* sessionIDHashKey has the hash key "beegosessionkey", and the hash function
\* "sha1" when sessionIDHashFunc is not set either.
C10_DefaultHashKey ==
    (/\ last.op = "NewManager"
     /\ ~last.err
     /\ "sessionIDHashKey" \notin last.doc.set)
    => /\ manager.config.sessionIDHashKey = "beegosessionkey"
       /\ "sessionIDHashFunc" \notin last.doc.set
            => manager.config.sessionIDHashFunc = "sha1"

\* C11: once Secure is set (SetSecure(true), or secure=true in the config),
\* every cookie carrying a session id that SessionStart or
\* SessionRegenerateId, in either of its branches, writes to the response has
\* the Secure flag.
C11_SecureCookies ==
    [][(/\ manager.config.secure
        /\ manager' = manager
        /\ last'.op \in {"SessionStart", "SessionRegenerateId"}
        /\ Len(w') = Len(w) + 1)
       => LastOf(w').Secure]_vars
====
